---- MODULE Spec2Model ----
(***************************************************************************)
(* QueueSimulator: a React component holding a bounded circular queue in   *)
(* one state object (queueState), with an enqueue animation timer and a    *)
(* dequeue whose state update runs in a setTimeout callback that closes    *)
(* over the queueState of the render in which Dequeue was clicked.         *)
(*                                                                         *)
(* Optional values (number | null, NaN) are sequences: <<>> is null / NaN, *)
(* <<v>> is the number v.  Text typed in an <input> is a sequence of       *)
(* one-character strings.  A status message is the sequence of the pieces  *)
(* of its template string.                                                 *)
(*                                                                         *)
(* Timers are untimed: an enqueue animation timer (400 ms) and a dequeue   *)
(* timer (300 ms) may fire in either order; dequeue timers all have the    *)
(* same delay and fire in the order they were set.                         *)
(***************************************************************************)
EXTENDS Integers, Sequences, FiniteSets, TLC

\* ---- bounds of the model ----
MaxCapacity == 3
MaxRequests == 4

\* ---- program constant: the largest size initializeQueue accepts ----
MaxQueueSize == 20

None == <<>>
Some(v) == <<v>>

Digits == <<"0", "1", "2", "3", "4", "5", "6", "7", "8", "9">>
IsDigit(c) == \E i \in 1..10 : Digits[i] = c
DigitValue(c) == (CHOOSE i \in 1..10 : Digits[i] = c) - 1

\* Texts the user can leave in the two <input type="number"> fields.
SizeTexts ==
  {<<>>, <<"0">>, <<"-", "1">>, <<"2", "0">>, <<"2", "1">>}
    \cup {<<Digits[n + 1]>> : n \in 1..MaxCapacity}
ValueTexts == {<<>>, <<"1">>, <<"2">>}

\* The value of the longest prefix of digits of s, given the digits read so
\* far (acc) and whether any was read (seen); NaN when there is none.
RECURSIVE ParseDigits(_, _, _)
ParseDigits(s, acc, seen) ==
  IF s # <<>> /\ IsDigit(Head(s))
    THEN ParseDigits(Tail(s), acc * 10 + DigitValue(Head(s)), TRUE)
    ELSE IF seen THEN Some(acc) ELSE None

\* JavaScript parseInt(s) in radix 10: optional sign, then leading digits.
parseInt(s) ==
  IF s # <<>> /\ Head(s) = "-"
    THEN LET r == ParseDigits(Tail(s), 0, FALSE)
         IN IF r = None THEN None ELSE Some(0 - r[1])
    ELSE IF s # <<>> /\ Head(s) = "+"
      THEN ParseDigits(Tail(s), 0, FALSE)
      ELSE ParseDigits(s, 0, FALSE)

isNaN(n) == n = None

\* `${x}` of a number | null.
Show(c) == IF c = None THEN "null" ELSE ToString(c[1])

VARIABLES
  queueState,           \* [data, front, rear, size, maxSize]
  inputValue,           \* text of the enqueue <input>
  queueSize,            \* text of the size <input>
  isInitialized,
  animatingIndex,       \* number | null
  statusMessage,
  animationTimeoutRef,  \* "null", or the state of the timer it refers to
  enqueueTimers,        \* number of pending enqueue animation timers
  dequeueTimers,        \* pending dequeue callbacks, oldest first
  enqLog,               \* history: values of 'Enqueued v at position i'
  deqLog,               \* history: values of 'Dequeued v from front'
  requests,             \* history: enqueue and dequeue requests accepted
  dequeueRequests,      \* history: dequeue requests accepted on this queue
  inherited             \* history: dequeue timers of a discarded queue were
                        \* pending when this queue was initialized

vars == <<queueState, inputValue, queueSize, isInitialized, animatingIndex,
          statusMessage, animationTimeoutRef, enqueueTimers, dequeueTimers,
          enqLog, deqLog, requests, inherited, dequeueRequests>>

EmptyQueueState ==
  [data |-> <<>>, front |-> 0, rear |-> -1, size |-> 0, maxSize |-> 0]

Init ==
  /\ queueState = EmptyQueueState
  /\ inputValue = <<>>
  /\ queueSize = <<>>
  /\ isInitialized = FALSE
  /\ animatingIndex = None
  /\ statusMessage = <<"Set queue size to begin">>
  /\ animationTimeoutRef = "null"
  /\ enqueueTimers = 0
  /\ dequeueTimers = <<>>
  /\ enqLog = <<>>
  /\ deqLog = <<>>
  /\ requests = 0
  /\ inherited = FALSE
  /\ dequeueRequests = 0

\* onChange of the size input (rendered while not initialized).
ChangeQueueSize ==
  /\ ~isInitialized
  /\ \E txt \in SizeTexts : queueSize' = txt
  /\ UNCHANGED <<queueState, inputValue, isInitialized, animatingIndex,
                 statusMessage, animationTimeoutRef, enqueueTimers,
                 dequeueTimers, enqLog, deqLog, requests, inherited,
                 dequeueRequests>>

\* Mutant of invalidSize: the upper limit off by one.
invalidSize_offByOne(size) ==
  isNaN(size) \/ size[1] <= 0 \/ size[1] >= MaxQueueSize

invalidSize(size) == isNaN(size) \/ size[1] <= 0 \/ size[1] > MaxQueueSize

initializeQueue ==
  LET size == parseInt(queueSize) IN
  IF invalidSize(size)
    THEN /\ statusMessage' = <<"Please enter a valid size (1-20)">>
         /\ UNCHANGED <<queueState, inputValue, queueSize, isInitialized,
                        animatingIndex, animationTimeoutRef, enqueueTimers,
                        dequeueTimers, enqLog, deqLog, requests, inherited,
                        dequeueRequests>>
    ELSE /\ queueState' = [data |-> [i \in 0..(size[1] - 1) |-> None],
                           front |-> 0, rear |-> -1, size |-> 0,
                           maxSize |-> size[1]]
         /\ isInitialized' = TRUE
         /\ statusMessage' = <<"Queue initialized with size ", Show(size)>>
         /\ enqLog' = <<>>
         /\ deqLog' = <<>>
         /\ inherited' = (dequeueTimers # <<>>)
         /\ dequeueRequests' = 0
         /\ UNCHANGED <<inputValue, queueSize, animatingIndex,
                        animationTimeoutRef, enqueueTimers, dequeueTimers,
                        requests>>

\* ---- enqueue ----

\* onChange of the value input.
ChangeInputValue ==
  /\ \E txt \in ValueTexts : inputValue' = txt
  /\ UNCHANGED <<queueState, queueSize, isInitialized, animatingIndex,
                 statusMessage, animationTimeoutRef, enqueueTimers,
                 dequeueTimers, enqLog, deqLog, requests, inherited,
                 dequeueRequests>>

\* Mutant of enqueueFull: the comparison off by one.
enqueueFull_offByOne(qs) == qs.size > qs.maxSize

enqueueFull(qs) == qs.size >= qs.maxSize

\* Mutant of newRear: the index does not wrap.
newRear_noWrap(qs) == qs.rear + 1

newRear(qs) == (qs.rear + 1) % qs.maxSize

enqueueState(qs, value) ==
  [qs EXCEPT !.data = [qs.data EXCEPT ![newRear(qs)] = value],
             !.rear = newRear(qs),
             !.size = qs.size + 1]

\* Mutant of setAnimationTimeout: the previous timer is never cleared.
setAnimationTimeout_noClear(ref, n) == n + 1

\* The number of pending enqueue animation timers after enqueue has cleared
\* the timer the ref holds, if it is pending, and has set a new one.
setAnimationTimeout(ref, n) == IF ref = "pending" THEN n ELSE n + 1

enqueue ==
  LET value == parseInt(inputValue) IN
  IF isNaN(value)
    THEN /\ statusMessage' = <<"Please enter a valid number">>
         /\ UNCHANGED <<queueState, inputValue, queueSize, isInitialized,
                        animatingIndex, animationTimeoutRef, enqueueTimers,
                        dequeueTimers, enqLog, deqLog, requests, inherited,
                        dequeueRequests>>
    ELSE IF enqueueFull(queueState)
      THEN /\ statusMessage' = <<"Queue is full! Cannot enqueue.">>
           /\ UNCHANGED <<queueState, inputValue, queueSize, isInitialized,
                          animatingIndex, animationTimeoutRef, enqueueTimers,
                          dequeueTimers, enqLog, deqLog, requests, inherited,
                          dequeueRequests>>
      ELSE /\ animatingIndex' = Some(newRear(queueState))
           /\ queueState' = enqueueState(queueState, value)
           /\ inputValue' = <<>>
           /\ statusMessage' = <<"Enqueued ", Show(value), " at position ",
                                 ToString(newRear(queueState))>>
           /\ enqueueTimers' =
                setAnimationTimeout(animationTimeoutRef, enqueueTimers)
           /\ animationTimeoutRef' = "pending"
           /\ enqLog' = Append(enqLog, value)
           /\ requests' = requests + 1
           /\ UNCHANGED <<queueSize, isInitialized, dequeueTimers, deqLog,
                          inherited, dequeueRequests>>

\* The callback of the enqueue animation timer.
EnqueueTimeout ==
  /\ enqueueTimers > 0
  /\ animatingIndex' = None
  /\ enqueueTimers' = enqueueTimers - 1
  /\ \E referenced \in BOOLEAN :
       /\ referenced => animationTimeoutRef = "pending"
       /\ ~referenced =>
            enqueueTimers > (IF animationTimeoutRef = "pending" THEN 1 ELSE 0)
       /\ animationTimeoutRef' =
            IF referenced THEN "fired" ELSE animationTimeoutRef
  /\ UNCHANGED <<queueState, inputValue, queueSize, isInitialized,
                 statusMessage, dequeueTimers, enqLog, deqLog, requests,
                 inherited, dequeueRequests>>

\* ---- dequeue ----

\* Mutant of dequeueEmpty: the test never holds of an empty queue.
dequeueEmpty_negative(qs) == qs.size < 0

dequeueEmpty(qs) == qs.size = 0

\* What the setTimeout callback closes over: the queueState of the render
\* in which dequeue ran, and the two values computed from it.
dequeueClosure(qs) ==
  [queueState |-> qs,
   dequeuedValue |-> qs.data[qs.front],
   newData |-> [qs.data EXCEPT ![qs.front] = None]]

\* Mutant of dequeueState: front is not advanced.
dequeueState_keepFront(c) ==
  [c.queueState EXCEPT !.data = c.newData,
                       !.size = c.queueState.size - 1]

dequeueState(c) ==
  [c.queueState EXCEPT !.data = c.newData,
                       !.front = (c.queueState.front + 1) % c.queueState.maxSize,
                       !.size = c.queueState.size - 1]

dequeue ==
  IF dequeueEmpty(queueState)
    THEN /\ statusMessage' = <<"Queue is empty! Cannot dequeue.">>
         /\ UNCHANGED <<queueState, inputValue, queueSize, isInitialized,
                        animatingIndex, animationTimeoutRef, enqueueTimers,
                        dequeueTimers, enqLog, deqLog, requests, inherited,
                        dequeueRequests>>
    ELSE /\ animatingIndex' = Some(queueState.front)
         /\ dequeueTimers' = Append(dequeueTimers, dequeueClosure(queueState))
         /\ requests' = requests + 1
         /\ UNCHANGED <<queueState, inputValue, queueSize, isInitialized,
                        statusMessage, animationTimeoutRef, enqueueTimers,
                        enqLog, deqLog, inherited>>
         /\ dequeueRequests' = dequeueRequests + 1

\* The callback of the oldest pending dequeue timer.
DequeueTimeout ==
  /\ dequeueTimers # <<>>
  /\ LET c == Head(dequeueTimers) IN
       /\ queueState' = dequeueState(c)
       /\ statusMessage' = <<"Dequeued ", Show(c.dequeuedValue), " from front">>
       /\ deqLog' = Append(deqLog, c.dequeuedValue)
  /\ animatingIndex' = None
  /\ dequeueTimers' = Tail(dequeueTimers)
  /\ UNCHANGED <<inputValue, queueSize, isInitialized, animationTimeoutRef,
                 enqueueTimers, enqLog, requests, inherited,
                 dequeueRequests>>

\* ---- inspection ----

StatusOnly ==
  UNCHANGED <<queueState, inputValue, queueSize, isInitialized,
              animatingIndex, animationTimeoutRef, enqueueTimers,
              dequeueTimers, enqLog, deqLog, requests, inherited,
              dequeueRequests>>

\* What each inspection handler reports of the queueState qs it reads.
frontMessage(qs) ==
  IF qs.size = 0
    THEN <<"Queue is empty! No front element.">>
    ELSE <<"Front element: ", Show(qs.data[qs.front])>>

rearMessage(qs) ==
  IF qs.size = 0
    THEN <<"Queue is empty! No rear element.">>
    ELSE <<"Rear element: ", Show(qs.data[qs.rear])>>

isEmptyMessage(qs) ==
  <<"Queue is ", IF qs.size = 0 THEN "empty" ELSE "not empty">>

isFullMessage(qs) ==
  <<"Queue is ", IF qs.size >= qs.maxSize THEN "full" ELSE "not full">>

sizeMessage(qs) ==
  <<"Current size: ", ToString(qs.size), "/", ToString(qs.maxSize)>>

getFront == statusMessage' = frontMessage(queueState) /\ StatusOnly

getRear == statusMessage' = rearMessage(queueState) /\ StatusOnly

checkIsEmpty == statusMessage' = isEmptyMessage(queueState) /\ StatusOnly

checkIsFull == statusMessage' = isFullMessage(queueState) /\ StatusOnly

showSize == statusMessage' = sizeMessage(queueState) /\ StatusOnly

goBack ==
  /\ statusMessage' = <<"Returning to Virtual Lab...">>
  /\ StatusOnly

\* ---- reset ----

\* Mutant of resetQueue: the pending dequeue timers are cancelled.
resetQueue_cancelsTimers ==
  /\ queueState' = EmptyQueueState
  /\ isInitialized' = FALSE
  /\ inputValue' = <<>>
  /\ queueSize' = <<>>
  /\ statusMessage' = <<"Set queue size to begin">>
  /\ animatingIndex' = None
  /\ enqLog' = <<>>
  /\ deqLog' = <<>>
  /\ inherited' = FALSE
  /\ dequeueRequests' = 0
  /\ dequeueTimers' = <<>>
  /\ UNCHANGED <<animationTimeoutRef, enqueueTimers, requests>>

resetQueue ==
  /\ queueState' = EmptyQueueState
  /\ isInitialized' = FALSE
  /\ inputValue' = <<>>
  /\ queueSize' = <<>>
  /\ statusMessage' = <<"Set queue size to begin">>
  /\ animatingIndex' = None
  /\ enqLog' = <<>>
  /\ deqLog' = <<>>
  /\ inherited' = FALSE
  /\ dequeueRequests' = 0
  /\ UNCHANGED <<animationTimeoutRef, enqueueTimers, dequeueTimers, requests>>

\* ---- the rendered controls ----

\* The model follows a run up to MaxRequests accepted enqueue and dequeue
\* requests.
MayRequest == requests < MaxRequests

valueInputDisabled == queueState.size >= queueState.maxSize
enqueueDisabled == queueState.size >= queueState.maxSize \/ inputValue = <<>>
dequeueDisabled == queueState.size = 0
getFrontDisabled == queueState.size = 0
getRearDisabled == queueState.size = 0

ClickInitialize == ~isInitialized /\ initializeQueue
TypeValue == isInitialized /\ ~valueInputDisabled /\ ChangeInputValue
ClickEnqueue == isInitialized /\ ~enqueueDisabled /\ MayRequest /\ enqueue
ClickDequeue == isInitialized /\ ~dequeueDisabled /\ MayRequest /\ dequeue
ClickGetFront == isInitialized /\ ~getFrontDisabled /\ getFront
ClickGetRear == isInitialized /\ ~getRearDisabled /\ getRear
ClickIsEmpty == isInitialized /\ checkIsEmpty
ClickIsFull == isInitialized /\ checkIsFull
ClickShowSize == isInitialized /\ showSize
ClickReset == resetQueue
ClickBack == goBack

Next ==
  \/ ChangeQueueSize
  \/ ClickInitialize
  \/ TypeValue
  \/ ClickEnqueue
  \/ EnqueueTimeout
  \/ ClickDequeue
  \/ DequeueTimeout
  \/ ClickGetFront
  \/ ClickGetRear
  \/ ClickIsEmpty
  \/ ClickIsFull
  \/ ClickShowSize
  \/ ClickReset
  \/ ClickBack

Spec == Init /\ [][Next]_vars

\* The page with its timers: a pending timer eventually fires (setTimeout
\* runs the callback of a timer that is not cleared).
SpecFair ==
  /\ Init
  /\ [][Next]_vars
  /\ WF_vars(DequeueTimeout)
  /\ WF_vars(EnqueueTimeout)

\* ---- the handlers called whatever the `disabled` attributes say ----

SetValue == isInitialized /\ ChangeInputValue
CallEnqueue == isInitialized /\ MayRequest /\ enqueue
CallDequeue == isInitialized /\ MayRequest /\ dequeue
CallGetFront == isInitialized /\ getFront
CallGetRear == isInitialized /\ getRear

NextHandlers ==
  \/ ChangeQueueSize
  \/ ClickInitialize
  \/ SetValue
  \/ CallEnqueue
  \/ EnqueueTimeout
  \/ CallDequeue
  \/ DequeueTimeout
  \/ CallGetFront
  \/ CallGetRear
  \/ ClickIsEmpty
  \/ ClickIsFull
  \/ ClickShowSize
  \/ ClickReset
  \/ ClickBack

SpecHandlers == Init /\ [][NextHandlers]_vars

\* ---- properties ----

IsPrefix(s, t) ==
  /\ Len(s) <= Len(t)
  /\ \A i \in 1..Len(s) : s[i] = t[i]

\* The size cells read from front, stepping +1 mod maxSize.
Walk(qs) ==
  [k \in 1..qs.size |-> qs.data[(qs.front + k - 1) % qs.maxSize]]

\* The accepted values not yet reported dequeued, in enqueue order.
Remaining == SubSeq(enqLog, Len(deqLog) + 1, Len(enqLog))

\* A queue none of whose reports comes from a discarded queue's timers.
OneQueue == isInitialized /\ ~inherited

\* The step in which a pending dequeue's state update is applied.
DequeueApplied ==
  /\ dequeueTimers # <<>>
  /\ dequeueTimers' = Tail(dequeueTimers)

\* The step in which an enqueue is accepted.
EnqueueApplied == Len(enqLog') = Len(enqLog) + 1

\* C1: on one initialized queue the values reported by successive dequeues
\* are the first values accepted by enqueue, in order: the i-th dequeued
\* value is the i-th enqueued value.
C1_FifoOrder == OneQueue => IsPrefix(deqLog, enqLog)

\* C2: on an initialized queue the size cells read from front hold exactly
\* the accepted values not yet reported dequeued, in enqueue order.
C2_ContentsAreRemaining == OneQueue => Walk(queueState) = Remaining

\* C3: when the effect of an accepted dequeue is applied, size is one less
\* than immediately before, front has advanced by one modulo maxSize, the
\* cell at the old front is null and the reported value is the value that
\* cell held immediately before.
C3_DequeueRemovesOne ==
  [][(OneQueue /\ DequeueApplied) =>
       /\ queueState'.size = queueState.size - 1
       /\ queueState'.front = (queueState.front + 1) % queueState.maxSize
       /\ queueState'.data[queueState.front] = None
       /\ deqLog' = Append(deqLog, queueState.data[queueState.front])]_vars

\* C4: in every reachable state 0 <= size <= maxSize.
C4_SizeInRange ==
  /\ 0 <= queueState.size
  /\ queueState.size <= queueState.maxSize

\* Several dequeue timers pending at once on a full queue.
C4_Witness ==
  /\ isInitialized
  /\ Len(dequeueTimers) >= 2
  /\ queueState.maxSize >= 2
  /\ queueState.size = queueState.maxSize

Occupied(qs) == {i \in DOMAIN qs.data : qs.data[i] # None}

Window(qs) == {(qs.front + k) % qs.maxSize : k \in 0..(qs.size - 1)}

\* C5: in every reachable state the non-null cells are exactly the size
\* cells at front, front+1, ..., front+size-1 (mod maxSize); size = 0 iff no
\* cell is occupied, size = maxSize iff every cell is; and when size > 0,
\* rear = (front + size - 1) mod maxSize.
C5_OccupiedIsWindow ==
  /\ DOMAIN queueState.data = 0..(queueState.maxSize - 1)
  /\ Occupied(queueState) = Window(queueState)
  /\ Cardinality(Occupied(queueState)) = queueState.size
  /\ (queueState.size = 0) <=> (Occupied(queueState) = {})
  /\ (queueState.size = queueState.maxSize)
       <=> (Occupied(queueState) = DOMAIN queueState.data)
  /\ queueState.size > 0 =>
       queueState.rear =
         (queueState.front + queueState.size - 1) % queueState.maxSize

\* An occupied window that wraps past the last index.
C5_Witness ==
  /\ isInitialized
  /\ queueState.size >= 2
  /\ queueState.rear < queueState.front

\* C6: an accepted enqueue of v stores v at (rear + 1) mod maxSize (index 0
\* after index maxSize-1), sets rear to that index, adds one to size, leaves
\* front and every other cell unchanged and reports that index; on an empty
\* queue that index is front.
C6_EnqueueEffect ==
  [][EnqueueApplied =>
       LET v == parseInt(inputValue)
           i == IF queueState.rear = queueState.maxSize - 1
                  THEN 0
                  ELSE queueState.rear + 1
       IN /\ queueState.size < queueState.maxSize
          /\ v # None
          /\ enqLog' = Append(enqLog, v)
          /\ DOMAIN queueState'.data = DOMAIN queueState.data
          /\ i \in DOMAIN queueState.data
          /\ queueState'.data[i] = v
          /\ \A j \in DOMAIN queueState.data \ {i} :
               queueState'.data[j] = queueState.data[j]
          /\ queueState'.rear = i
          /\ queueState'.size = queueState.size + 1
          /\ queueState'.front = queueState.front
          /\ queueState'.maxSize = queueState.maxSize
          /\ statusMessage' =
               <<"Enqueued ", ToString(v[1]), " at position ", ToString(i)>>
          /\ (queueState.size = 0 => i = queueState.front)]_vars

\* An enqueue has just stored its value at index 0 behind a front that had
\* advanced: the rear index wrapped.
C6_Witness ==
  /\ isInitialized
  /\ Len(statusMessage) = 4
  /\ statusMessage[1] = "Enqueued "
  /\ statusMessage[4] = "0"
  /\ queueState.rear = 0
  /\ queueState.front > 0
  /\ queueState.size >= 2

\* Everything but the status message.
allButStatus ==
  <<queueState, inputValue, queueSize, isInitialized, animatingIndex,
    animationTimeoutRef, enqueueTimers, dequeueTimers, enqLog, deqLog>>

\* C7: enqueue of a value on a full queue fails with the 'Queue is full'
\* error, leaves data, front, rear, size and maxSize unchanged and schedules
\* no timer; only the status message changes.
C7_EnqueueOnFull ==
  [][(CallEnqueue /\ queueState.size = queueState.maxSize
        /\ ~isNaN(parseInt(inputValue))) =>
       /\ statusMessage' = <<"Queue is full! Cannot enqueue.">>
       /\ UNCHANGED allButStatus]_vars

\* The full error shown on a full queue.
C7_Witness ==
  /\ isInitialized
  /\ statusMessage = <<"Queue is full! Cannot enqueue.">>
  /\ queueState.size = queueState.maxSize
  /\ queueState.maxSize > 0

\* C8: dequeue, Get Front and Get Rear called when size = 0 fail with a
\* 'Queue is empty' error, leave the queue state unchanged and schedule no
\* timer.
C8_EmptyRejections ==
  [][queueState.size = 0 =>
       /\ CallDequeue =>
            /\ statusMessage' = <<"Queue is empty! Cannot dequeue.">>
            /\ UNCHANGED allButStatus
       /\ CallGetFront =>
            /\ statusMessage' = <<"Queue is empty! No front element.">>
            /\ UNCHANGED allButStatus
       /\ CallGetRear =>
            /\ statusMessage' = <<"Queue is empty! No rear element.">>
            /\ UNCHANGED allButStatus]_vars

\* The empty error of dequeue shown on an empty queue with nothing pending.
C8_Witness ==
  /\ isInitialized
  /\ statusMessage = <<"Queue is empty! Cannot dequeue.">>
  /\ queueState.size = 0
  /\ dequeueTimers = <<>>

\* C9: reset returns the queue to the uninitialized empty state, and the
\* queue stays in that state until the next successful initialize: nothing
\* requested before the reset changes the queue state after it.
C9_ResetIsFinal ==
  [][/\ ClickReset =>
          /\ queueState' = EmptyQueueState
          /\ ~isInitialized'
     /\ (~isInitialized /\ queueState = EmptyQueueState) =>
          (queueState' = EmptyQueueState \/ isInitialized')]_vars

\* C10: between the acceptance of a dequeue request and the update of data,
\* front and size for it, no other operation (enqueue, another dequeue,
\* inspection, reset, initialize) runs.
C10_DequeueIsImmediate ==
  [][dequeueTimers # <<>> =>
       ~(\/ ClickEnqueue
         \/ ClickDequeue
         \/ ClickGetFront
         \/ ClickGetRear
         \/ ClickIsEmpty
         \/ ClickIsFull
         \/ ClickShowSize
         \/ ClickReset
         \/ ClickInitialize)]_vars

\* What the five inspections would report of the queueState qs.
Reports(qs) ==
  <<isEmptyMessage(qs), isFullMessage(qs), sizeMessage(qs),
    frontMessage(qs), rearMessage(qs)>>

\* A step that is one of the five inspections.
Inspection ==
  \/ ClickIsEmpty
  \/ ClickIsFull
  \/ ClickShowSize
  \/ ClickGetFront
  \/ ClickGetRear

\* C11: the inspections never change data, front, rear, size or maxSize,
\* and any two invocations of the same inspection on one queue with no
\* enqueue or dequeue request made between them report identical results:
\* a step that accepts no such request (and is no reset) leaves what each
\* inspection reports as it was.
C11_InspectionRepeatable ==
  [][/\ Inspection => queueState' = queueState
     /\ (OneQueue /\ isInitialized' /\ requests' = requests) =>
          Reports(queueState') = Reports(queueState)]_vars

\* The capacity the current queue was initialized with (the size text
\* stays in its field while the queue is initialized).
Capacity == parseInt(queueSize)[1]

\* C12: on a freshly initialized queue of capacity c, after k <= c accepted
\* enqueues and no dequeue request, size = k, Get Front reports the first
\* enqueued value, Get Rear the most recently enqueued one, and Is Full
\* reports full exactly when k = c.
C12_AfterEnqueues ==
  (isInitialized /\ dequeueRequests = 0 /\ Len(enqLog) <= Capacity) =>
    LET k == Len(enqLog) IN
      /\ queueState.size = k
      /\ k > 0 =>
           /\ frontMessage(queueState) = <<"Front element: ", Show(enqLog[1])>>
           /\ rearMessage(queueState) = <<"Rear element: ", Show(enqLog[k])>>
      /\ isFullMessage(queueState) =
           <<"Queue is ", IF k = Capacity THEN "full" ELSE "not full">>

\* The state of a queue of capacity c on which nothing was done.
IsFreshQueue(qs, c) ==
  /\ qs.maxSize = c
  /\ DOMAIN qs.data = 0..(c - 1)
  /\ \A i \in DOMAIN qs.data : qs.data[i] = None
  /\ qs.front = 0
  /\ qs.rear = -1
  /\ qs.size = 0
  /\ isEmptyMessage(qs) = <<"Queue is ", "empty">>
  /\ sizeMessage(qs) = <<"Current size: ", "0", "/", ToString(c)>>

\* C13 as stated: for every positive integer capacity, initialize succeeds
\* and yields an empty queue of that capacity.
C13_EveryPositiveCapacity ==
  [][(ClickInitialize /\ ~isNaN(parseInt(queueSize))
        /\ parseInt(queueSize)[1] > 0) =>
       /\ isInitialized'
       /\ IsFreshQueue(queueState', parseInt(queueSize)[1])]_vars

\* C13 amended: for every integer capacity from 1 to 20, initialize
\* succeeds and yields an empty queue of that capacity: isInitialized,
\* maxSize = capacity, capacity null cells, front 0, rear -1, size 0.
C13_CapacityUpTo20 ==
  [][(ClickInitialize /\ ~isNaN(parseInt(queueSize))
        /\ parseInt(queueSize)[1] >= 1
        /\ parseInt(queueSize)[1] <= 20) =>
       /\ isInitialized'
       /\ IsFreshQueue(queueState', parseInt(queueSize)[1])]_vars

\* A queue of the largest accepted capacity has just been initialized.
C13_Witness ==
  /\ isInitialized
  /\ statusMessage = <<"Queue initialized with size ", "20">>
  /\ IsFreshQueue(queueState, 20)

\* C14: initialize with a capacity <= 0 or a non-numeric capacity (for which
\* the number input holds the empty text) fails with the invalid-size error
\* and changes nothing else: the queue stays uninitialized; initialize(1)
\* succeeds and gives a single-slot queue, full after its one enqueue and
\* empty again after its one dequeue.
C14_CapacityBoundary ==
  [][/\ (ClickInitialize
           /\ (isNaN(parseInt(queueSize)) \/ parseInt(queueSize)[1] <= 0)) =>
          /\ statusMessage' = <<"Please enter a valid size (1-20)">>
          /\ ~isInitialized'
          /\ UNCHANGED <<allButStatus, requests, inherited, dequeueRequests>>
     /\ (ClickInitialize /\ parseInt(queueSize) = Some(1)) =>
          /\ isInitialized'
          /\ IsFreshQueue(queueState', 1)
     /\ (isInitialized /\ Capacity = 1 /\ EnqueueApplied
           /\ enqLog = <<>> /\ dequeueRequests = 0) =>
          /\ queueState'.size = 1
          /\ isFullMessage(queueState') = <<"Queue is ", "full">>
     /\ (isInitialized /\ Capacity = 1 /\ DequeueApplied
           /\ Len(enqLog) = 1 /\ dequeueRequests = 1
           /\ Len(dequeueTimers) = 1 /\ deqLog = <<>>) =>
          /\ queueState'.size = 0
          /\ isEmptyMessage(queueState') = <<"Queue is ", "empty">>]_vars

\* The index the REAR panel displays: the numeric rear of the state, as is.
rearIndexDisplay(qs) == qs.rear

\* C15: in every reachable state of an initialized queue with size 0, rear
\* and the displayed rear index are the sentinel -1, as on a fresh queue.
C15_RearSentinelWhenEmpty ==
  (isInitialized /\ queueState.size = 0) =>
    /\ queueState.rear = -1
    /\ rearIndexDisplay(queueState) = -1

\* C17: whenever a cell is highlighted, a timer whose callback clears the
\* highlight is pending (the enqueue animation timer or a dequeue timer), so
\* with no timer pending no cell is highlighted; and at most one enqueue
\* animation timer is pending at a time.
C17_HighlightClears ==
  /\ animatingIndex # None => (enqueueTimers > 0 \/ dequeueTimers # <<>>)
  /\ enqueueTimers <= 1
  /\ enqueueTimers = 1 => animationTimeoutRef = "pending"

\* A second enqueue has been made and only its animation timer is pending.
C17_Witness ==
  /\ animatingIndex # None
  /\ Len(enqLog) >= 2
  /\ enqueueTimers = 1
  /\ dequeueTimers = <<>>

\* A dequeue request is accepted in this step.
DequeueAccepted == requests' = requests + 1 /\ enqLog' = enqLog

\* C16: every dequeue request accepted on a non-empty queue sets a timer,
\* a pending dequeue timer leaves the pending ones only by firing, with the
\* state update of its request, whatever operation comes in between
\* (enqueue, another dequeue, reset, initialize), and every pending dequeue
\* timer eventually fires.
C16_DequeueEventuallyApplied ==
  /\ [][/\ DequeueAccepted =>
             /\ queueState.size > 0
             /\ dequeueTimers' = Append(dequeueTimers,
                                        dequeueClosure(queueState))
        /\ dequeueTimers' # dequeueTimers =>
             \/ DequeueAccepted
             \/ /\ dequeueTimers # <<>>
                /\ dequeueTimers' = Tail(dequeueTimers)
                /\ queueState' = dequeueState(Head(dequeueTimers))
                /\ statusMessage' =
                     <<"Dequeued ",
                       Show(Head(dequeueTimers).dequeuedValue),
                       " from front">>]_vars
  /\ \A n \in 1..MaxRequests :
       (Len(dequeueTimers) >= n) ~> (Len(dequeueTimers) < n)

\* The timer of a dequeue requested before Reset has fired after it: the
\* page shows no queue, and the update of the request has been applied.
C16_Witness ==
  /\ ~isInitialized
  /\ deqLog # <<>>
  /\ queueState.maxSize > 0
  /\ dequeueTimers = <<>>
====
